---- MODULE Spec2Model ----
(***************************************************************************)
(* A model of splipy/curve_factory.py: the curve constructors polygon,     *)
(* n_gon, circle, circle_segment, least_square_fit and cubic_curve.        *)
(*                                                                         *)
(* One behaviour is one call: Init draws the function and its arguments,   *)
(* the actions are the steps of the called function, and the call ends in  *)
(* pc = "done" (a curve was returned) or pc = "raised" (an exception left  *)
(* the function, its kind in err).                                         *)
(*                                                                         *)
(* Numbers.  Parameter values and coordinates are integers.  Angles are    *)
(* counted in twelfths of a full turn (pi/6), so 2*pi is 12 and 2*pi/3 is  *)
(* 4.  A row of a basis evaluation matrix is the pair <<d, tau>>: the      *)
(* d-th derivative of all basis functions at parameter tau.  The basis     *)
(* object itself (BSplineBasis) is a record of the arguments it was        *)
(* constructed from.                                                       *)
(***************************************************************************)
EXTENDS Integers, Sequences, FiniteSets

VARIABLES call, pc, t, knot, basis, N, X, result, err

vars == <<call, pc, t, knot, basis, N, X, result, err>>

\* ------------------------------------------------------------------ bounds
MaxN == 5          \* most interpolation points of a cubic_curve call
TRange == 3        \* supplied parameter values lie in -TRange..TRange
MaxPts == 3        \* most points of a polygon call
MaxSides == 5      \* n_gon side counts lie in 0..MaxSides
MaxRadius == 2     \* radii lie in -1..MaxRadius
ThetaOver == 2     \* angles lie in -(TwoPi+ThetaOver)..(TwoPi+ThetaOver)
MaxRows == 6       \* most sample rows of a least_square_fit call
MaxBasis == 6      \* most basis functions of a least_square_fit call

\* ------------------------------------------------------- class Boundary
FREE == 1
NATURAL == 2
HERMITE == 3
PERIODIC == 4
TANGENT == 5
TANGENTNATURAL == 6
Boundary == {FREE, NATURAL, HERMITE, PERIODIC, TANGENT, TANGENTNATURAL}

\* ---------------------------------------------------------------- helpers
SeqOfLen(S, n) == [1..n -> S]

Abs(a) == IF a < 0 THEN -a ELSE a

\* Python's s[-k] on a list: the k-th element from the end.
FromEnd(s, k) == s[Len(s) - k + 1]

\* Whether s[i] (0-based i, negative counts from the end) is inside the list.
InRange(s, i) == IF i < 0 THEN -i <= Len(s) ELSE i < Len(s)

\* Python's s[i] for a 0-based i that may be negative.
At(s, i) == IF i < 0 THEN s[Len(s) + i + 1] ELSE s[i + 1]

\* del s[i] (0-based i, negative counts from the end).
Del(s, i) ==
  LET k == IF i < 0 THEN Len(s) + i + 1 ELSE i + 1
  IN  [j \in 1..(Len(s) - 1) |-> IF j < k THEN s[j] ELSE s[j + 1]]

\* s[1:-1]
Interior(s) == IF Len(s) <= 2 THEN <<>> ELSE SubSeq(s, 2, Len(s) - 1)

\* [v] * k
Repeat(v, k) == [i \in 1..k |-> v]

RECURSIVE Insert(_, _)
Insert(s, v) ==
  IF s = <<>> THEN <<v>>
  ELSE IF v <= Head(s) THEN <<v>> \o s
  ELSE <<Head(s)>> \o Insert(Tail(s), v)

\* sorted(s)
RECURSIVE Sorted(_)
Sorted(s) == IF s = <<>> THEN <<>> ELSE Insert(Sorted(Tail(s)), Head(s))

NonDecreasing(s) == \A i \in 1..(Len(s) - 1) : s[i] <= s[i + 1]

StrictlyIncreasing(s) == \A i \in 1..(Len(s) - 1) : s[i] < s[i + 1]

\* How often v occurs in s.
Multiplicity(s, v) == Cardinality({i \in DOMAIN s : s[i] = v})

\* sqrt of a perfect square (the inputs are drawn so that every distance is one).
Sqrt(k) == CHOOSE r \in 0..k : r * r <= k /\ k < (r + 1) * (r + 1)

\* Euclidean distance between two points: the loop over zip(prevPt, pt) of
\* polygon, np.linalg.norm(x1 - x0) of cubic_curve.
RECURSIVE SumSq(_, _)
SumSq(a, b) ==
  IF a = <<>> \/ b = <<>> THEN 0
  ELSE (Head(b) - Head(a)) * (Head(b) - Head(a)) + SumSq(Tail(a), Tail(b))

Dist(a, b) == Sqrt(SumSq(a, b))

\* np.resize(A, (rows + k, cols)) of an array with at least one row: the
\* flattened data repeated cyclically, so the new rows are copies of the first.
NpResize(A, k) == [i \in 1..(Len(A) + k) |-> A[((i - 1) % Len(A)) + 1]]

\* A[n:, :] = rows, numpy's broadcasting assignment; Broadcasts says whether
\* numpy accepts it (equal row counts, or a single row repeated).
Broadcasts(A, n, rows) == Len(rows) = Len(A) - n \/ Len(rows) = 1

AssignFrom(A, n, rows) ==
  [i \in 1..Len(A) |->
     IF i <= n THEN A[i]
     ELSE IF Len(rows) = 1 THEN rows[1] ELSE rows[i - n]]

ZeroRow(A) == [j \in 1..Len(A[1]) |-> 0]

\* basis(taus, d): one row per parameter value.
Evaluate(taus, d) == [i \in 1..Len(taus) |-> <<d, taus[i]>>]

\* BSplineBasis(order, knot, periodic); periodic = -1 is the open basis.
BSplineBasis(order, knots, periodic) ==
  [order |-> order, knots |-> knots, periodic |-> periodic]

NoBasis == BSplineBasis(0, <<>>, -1)

\* Number of basis functions: len(knot) - order, less periodic + 1 when periodic.
NumBasis(b) == Len(b.knots) - b.order - (b.periodic + 1)

NoResult == [kind |-> "none", basis |-> NoBasis, cp |-> <<>>, rational |-> FALSE,
             placed |-> FALSE]

\* Curve(basis, controlpoints, rational)
Curve(b, cp, rational) ==
  [kind |-> "curve", basis |-> b, cp |-> cp, rational |-> rational, placed |-> FALSE]

\* ------------------------------------------------------------ cubic_curve
NeedsTangents(b) == b \in {TANGENT, HERMITE, TANGENTNATURAL}

\* The tangent rows a caller supplies: k distinct vectors.
TangentRows(k) == [j \in 1..k |-> <<7 * j, -j>>]

CubicPoints == {<<0, 0>>, <<3, 4>>}

\* The points used when the caller supplies t.
SamplePoints(n) == [i \in 1..n |-> <<3 * (i % 2), 4 * (i % 3)>>]

\* A finite set of integers as an increasing sequence.
RECURSIVE SetToSeq(_)
SetToSeq(S) ==
  IF S = {} THEN <<>>
  ELSE LET m == CHOOSE v \in S : \A w \in S : v <= w
       IN  <<m>> \o SetToSeq(S \ {m})

IncreasingSeqs ==
  {SetToSeq(S) : S \in {U \in SUBSET ((-TRange)..TRange) :
                          Cardinality(U) >= 2 /\ Cardinality(U) <= MaxN}}

CubicCalls ==
  { [fn |-> "cubic_curve", x |-> c.x, boundary |-> b, tGiven |-> c.tGiven,
     t |-> c.t, tangents |-> TangentRows(k)] :
      c \in ({[x |-> SamplePoints(Len(s)), tGiven |-> TRUE, t |-> s] :
                s \in IncreasingSeqs}
             \cup
             {[x |-> p, tGiven |-> FALSE, t |-> <<>>] :
                p \in UNION {SeqOfLen(CubicPoints, n) : n \in 2..MaxN}}),
      b \in Boundary,
      k \in 0..(MaxN + 1) }

\* Lines 285-291: n = len(x); t defaults to the cumulative distances.
RECURSIVE Cumulative(_, _)
Cumulative(x, acc) ==
  IF Len(x) < 2 THEN acc
  ELSE Cumulative(Tail(x), Append(acc, acc[Len(acc)] + Dist(x[1], x[2])))

Parametrize ==
  /\ call.fn = "cubic_curve"
  /\ pc = "start"
  /\ t' = IF call.tGiven THEN call.t ELSE Cumulative(call.x, <<0>>)
  /\ X' = call.x
  /\ pc' = "knot"
  /\ UNCHANGED <<call, knot, basis, N, result, err>>

\* Lines 294-299.
PaddedKnot(tt) == Repeat(tt[1], 3) \o tt \o Repeat(FromEnd(tt, 1), 3)

\* FreeKnot with both deletions one place off.
FreeKnotShifted(padded) == Del(Del(padded, -4), 3)

FreeKnot(padded) == Del(Del(padded, -5), 4)

HermiteKnot(padded, tt) == Sorted(padded \o Interior(tt))

BoundaryKnot(b, tt) ==
  IF b = FREE THEN FreeKnot(PaddedKnot(tt))
  ELSE IF b = HERMITE THEN HermiteKnot(PaddedKnot(tt), tt)
  ELSE PaddedKnot(tt)

KnotStep ==
  /\ call.fn = "cubic_curve"
  /\ pc = "knot"
  /\ knot' = BoundaryKnot(call.boundary, t)
  /\ pc' = "basis"
  /\ UNCHANGED <<call, t, basis, N, X, result, err>>

\* Lines 302-310.  t[-3] and t[2] raise IndexError on fewer than three values.
PeriodicKnot(k, tt) ==
  [i \in 1..Len(k) |->
     IF i = 1 THEN At(tt, -3) - At(tt, -1)
     ELSE IF i = 2 THEN At(tt, -2) - At(tt, -1)
     ELSE IF i = Len(k) - 1 THEN At(tt, -1) + At(tt, 1)
     ELSE IF i = Len(k) THEN At(tt, -1) + At(tt, 2)
     ELSE k[i]]

BasisStep ==
  /\ call.fn = "cubic_curve"
  /\ pc = "basis"
  /\ IF call.boundary = PERIODIC /\ ~(InRange(t, -3) /\ InRange(t, 2))
     THEN /\ err' = "IndexError"
          /\ pc' = "raised"
          /\ UNCHANGED <<knot, basis, N>>
     ELSE /\ knot' = IF call.boundary = PERIODIC THEN PeriodicKnot(knot, t) ELSE knot
          /\ basis' = BSplineBasis(4, knot', IF call.boundary = PERIODIC THEN 1 ELSE -1)
          /\ N' = Evaluate(t, 0)
          /\ pc' = "tangent"
          /\ UNCHANGED err
  /\ UNCHANGED <<call, t, X, result>>

\* Lines 313-327.  getBasis is not a name of the module: NameError.
TangentRowsNeeded(b, n) == IF b = TANGENT THEN 2 ELSE IF b = TANGENTNATURAL THEN 1 ELSE n

TangentStep ==
  /\ call.fn = "cubic_curve"
  /\ pc = "tangent"
  /\ LET n == Len(call.x)
         b == call.boundary
     IN  IF ~NeedsTangents(b)
         THEN /\ pc' = "natural"
              /\ UNCHANGED <<N, X, err>>
         ELSE IF b = HERMITE
         THEN /\ err' = "NameError"
              /\ pc' = "raised"
              /\ UNCHANGED <<N, X>>
         ELSE LET dn == IF b = TANGENT
                        THEN Evaluate(<<At(t, 0), At(t, -1)>>, 1)
                        ELSE Evaluate(<<At(t, 0)>>, 1)
                  Nr == NpResize(N, TangentRowsNeeded(b, n))
                  Xr == NpResize(X, TangentRowsNeeded(b, n))
              IN  IF Broadcasts(Xr, n, call.tangents)
                  THEN /\ X' = AssignFrom(Xr, n, call.tangents)
                       /\ N' = AssignFrom(Nr, n, dn)
                       /\ pc' = "natural"
                       /\ UNCHANGED err
                  ELSE /\ X' = Xr
                       /\ N' = Nr
                       /\ err' = "ValueError: broadcast"
                       /\ pc' = "raised"
  /\ UNCHANGED <<call, t, knot, basis, result>>

\* NaturalRows writing its rows from row n on, as the tangent rows are written,
\* instead of into the last rows.
NaturalRowsFromN(b, NN, XX, tt) ==
  LET new == IF b = NATURAL THEN 2 ELSE 1
      ddn == IF b = NATURAL
             THEN Evaluate(<<At(tt, 0), At(tt, -1)>>, 2)
             ELSE Evaluate(<<At(tt, -1)>>, 2)
      Nr  == NpResize(NN, new)
      Xr  == NpResize(XX, new)
      n   == Len(tt)
  IN  [N |-> AssignFrom(Nr, n, ddn),
       X |-> AssignFrom(Xr, n, <<ZeroRow(Xr)>>)]

\* Lines 330-340.
NaturalRows(b, NN, XX, tt) ==
  LET new == IF b = NATURAL THEN 2 ELSE 1
      ddn == IF b = NATURAL
             THEN Evaluate(<<At(tt, 0), At(tt, -1)>>, 2)
             ELSE Evaluate(<<At(tt, -1)>>, 2)
      Nr  == NpResize(NN, new)
      Xr  == NpResize(XX, new)
  IN  [N |-> AssignFrom(Nr, Len(Nr) - new, ddn),
       X |-> AssignFrom(Xr, Len(Xr) - new, <<ZeroRow(Xr)>>)]

NaturalStep ==
  /\ call.fn = "cubic_curve"
  /\ pc = "natural"
  /\ IF call.boundary \in {NATURAL, TANGENTNATURAL}
     THEN LET r == NaturalRows(call.boundary, N, X, t)
          IN  N' = r.N /\ X' = r.X
     ELSE UNCHANGED <<N, X>>
  /\ pc' = "solve"
  /\ UNCHANGED <<call, t, knot, basis, result, err>>

\* Lines 343-346.  np.linalg.solve raises LinAlgError on a matrix that is not
\* square or is singular; two equal rows make N singular.  Whether N is regular
\* otherwise is decided by the values of the basis functions, which a row
\* <<d, tau>> does not carry: both outcomes are allowed.
DuplicateRows(A) == \E i, j \in DOMAIN A : i < j /\ A[i] = A[j]

MustFail(NN, XX, b) ==
  Len(NN) # NumBasis(b) \/ Len(XX) # Len(NN) \/ DuplicateRows(NN)

SolveFails ==
  /\ call.fn = "cubic_curve"
  /\ pc = "solve"
  /\ err' = "LinAlgError"
  /\ pc' = "raised"
  /\ UNCHANGED <<call, t, knot, basis, N, X, result>>

SolveReturns ==
  /\ call.fn = "cubic_curve"
  /\ pc = "solve"
  /\ ~MustFail(N, X, basis)
  /\ result' = Curve(basis, [i \in 1..NumBasis(basis) |-> <<"cp", i>>], FALSE)
  /\ pc' = "done"
  /\ UNCHANGED <<call, t, knot, basis, N, X, err>>

\* ---------------------------------------------------------------- polygon
PolygonPoints == {<<0, 0>>, <<3, 0>>, <<0, 4>>, <<3, 4>>}

\* polygon(p1, p2, ...) or polygon([p1, p2, ...]), with or without relative.
PolygonCalls ==
  { [fn |-> "polygon", points |-> IF packed THEN <<p>> ELSE p, relative |-> rel] :
      p \in UNION {SeqOfLen(PolygonPoints, m) : m \in 2..MaxPts},
      packed \in BOOLEAN,
      rel \in BOOLEAN }

\* Lines 66-74: the knots are the running Euclidean length along the points.
RECURSIVE PolygonDistances(_, _)
PolygonDistances(points, k) ==
  IF Len(points) < 2 THEN k
  ELSE PolygonDistances(Tail(points),
                        Append(k, k[Len(k)] + Dist(points[1], points[2])))

PolygonKnot(points) ==
  LET k == PolygonDistances(points, <<0, 0>>) IN Append(k, k[Len(k)])

\* Lines 78-80: every point becomes the sum of itself and its (already
\* accumulated) predecessor.
VecAdd(a, b) == [j \in 1..Len(a) |-> a[j] + b[j]]

RECURSIVE Accumulate(_, _)
Accumulate(points, i) ==
  IF i > Len(points) THEN points
  ELSE Accumulate([points EXCEPT ![i] = VecAdd(points[i - 1], points[i])], i + 1)

\* Lines 62-82; the knot vector is built from the points as they were passed.
PolygonCurve(args, relative) ==
  LET points == IF Len(args) = 1 THEN args[1] ELSE args
      k      == PolygonKnot(points)
      cps    == IF relative THEN Accumulate(points, 2) ELSE points
  IN  Curve(BSplineBasis(2, k, -1), cps, FALSE)

Polygon ==
  /\ call.fn = "polygon"
  /\ pc = "start"
  /\ result' = PolygonCurve(call.points, call.relative)
  /\ knot' = result'.basis.knots
  /\ basis' = result'.basis
  /\ pc' = "done"
  /\ UNCHANGED <<call, t, N, X, err>>

\* ----------------------------------------------------------------- conics
TwoPi == 12        \* 2*pi in twelfths of a turn
MaxSpan == 4       \* 2*pi/3 in twelfths of a turn

\* flip_and_move_plane_geometry(result, center, normal): a rigid placement,
\* which keeps the basis, the number of control points and the weights.
FlipAndMove(c) == [c EXCEPT !.placed = TRUE]

Radii == (-1)..MaxRadius

NGonCalls == {[fn |-> "n_gon", n |-> n, r |-> r] : n \in 0..MaxSides, r \in Radii}

\* Lines 104-114.
NGonCurve(n, r) ==
  LET cp == [i \in 1..n |-> <<r, i - 1, n>>]      \* r at angle (i-1)*2*pi/n
      k  == <<-1>> \o [i \in 1..n |-> i - 1] \o <<n, n + 1>>
  IN  FlipAndMove(Curve(BSplineBasis(2, k, 0), cp, FALSE))

\* Lines 99-102: which check rejects the call, "none" when none does.
NGonError(n, r) ==
  IF r <= 0 THEN "ValueError: radius"
  ELSE IF n < 3 THEN "ValueError: sides"
  ELSE "none"

NGon ==
  /\ call.fn = "n_gon"
  /\ pc = "start"
  /\ IF NGonError(call.n, call.r) # "none"
     THEN /\ err' = NGonError(call.n, call.r)
          /\ pc' = "raised"
          /\ UNCHANGED <<result, knot, basis>>
     ELSE /\ result' = NGonCurve(call.n, call.r)
          /\ knot' = result'.basis.knots
          /\ basis' = result'.basis
          /\ pc' = "done"
          /\ UNCHANGED err
  /\ UNCHANGED <<call, t, N, X>>

CircleTypes == {"p2C0", "C0p2", "p4C1", "C1p4", "p3C0"}

CircleCalls == {[fn |-> "circle", r |-> r, type |-> ty] : r \in Radii, ty \in CircleTypes}

\* Lines 129-164: which check rejects the call, "none" when none does.
CircleError(r, type) ==
  IF r <= 0 THEN "ValueError: radius"
  ELSE IF type \in {"p2C0", "C0p2", "p4C1", "C1p4"} THEN "none"
  ELSE "ValueError: type"

\* Lines 132-167.  A knot k/4 * 2*pi is 3*k twelfths; a control point is its
\* position in the list with the radius it was scaled by.
CircleCurve(r, type) ==
  LET quad == type \in {"p2C0", "C0p2"}
      ks   == IF quad
              THEN <<-1, 0, 0, 1, 1, 2, 2, 3, 3, 4, 4, 5>>
              ELSE <<-1, -1, 0, 0, 0, 1, 1, 1, 2, 2, 2, 3, 3, 3, 4, 4, 4, 5, 5>>
      k    == [i \in 1..Len(ks) |-> 3 * ks[i]]
      cp   == [i \in 1..(IF quad THEN 8 ELSE 12) |-> <<r, i>>]
  IN  FlipAndMove(Curve(BSplineBasis(IF quad THEN 3 ELSE 5, k, IF quad THEN 0 ELSE 1),
                        cp, TRUE))

\* circle(r, center, normal, type): the error raised ("none" when a curve is
\* returned) and the curve.
CircleCall(r, type) ==
  [err   |-> CircleError(r, type),
   curve |-> IF CircleError(r, type) = "none" THEN CircleCurve(r, type) ELSE NoResult]

Circle ==
  /\ call.fn = "circle"
  /\ pc = "start"
  /\ LET c == CircleCall(call.r, call.type)
     IN  IF c.err # "none"
         THEN /\ err' = c.err
              /\ pc' = "raised"
              /\ UNCHANGED <<result, knot, basis>>
         ELSE /\ result' = c.curve
              /\ knot' = result'.basis.knots
              /\ basis' = result'.basis
              /\ pc' = "done"
              /\ UNCHANGED err
  /\ UNCHANGED <<call, t, N, X>>

Thetas == (-(TwoPi + ThetaOver))..(TwoPi + ThetaOver)

SegmentCalls ==
  {[fn |-> "circle_segment", theta |-> th, r |-> r] : th \in Thetas, r \in Radii}

\* int(ceil(a / b)) for b > 0.
CeilDiv(a, b) == -((-a) \div b)

\* Line 190.
KnotSpans(theta) == CeilDiv(theta, MaxSpan)

\* Lines 191-194: [0] + [i, i for i in range(spans + 1)] + [spans].
RECURSIVE Doubled(_, _)
Doubled(i, last) == IF i > last THEN <<>> ELSE <<i, i>> \o Doubled(i + 1, last)

SegmentIntKnot(spans) == <<0>> \o Doubled(0, spans) \o <<spans>>

\* Line 195: every knot k becomes k / knot[-1] * theta, here the fraction
\* <<k * theta, knot[-1]>>; a zero denominator is numpy's nan.
SegmentKnot(spans, theta) ==
  LET ik == SegmentIntKnot(spans)
  IN  [i \in 1..Len(ik) |-> <<ik[i] * theta, ik[Len(ik)]>>]

\* Lines 197-208.  Control point i sits at angle i*dt and has weight 1 (even
\* i) or cos(dt) (odd i), dt = theta / spans / 2; an angle is the fraction
\* <<numerator, denominator>>, and a weight is the angle whose cosine it is.
SegmentPoints(spans, theta, r) ==
  LET n == (spans - 1) * 2 + 3
  IN  [i \in 1..n |->
         [r |-> r, angle |-> <<(i - 1) * theta, 2 * spans>>,
          w |-> IF (i - 1) % 2 = 0 THEN <<0, 1>> ELSE <<theta, 2 * spans>>]]

\* SegmentError without the radius check.
SegmentErrorNoRadius(theta, r) ==
  IF Abs(theta) > TwoPi THEN "ValueError: theta" ELSE "none"

\* Lines 182-185: which check rejects the call, "none" when none does.
SegmentError(theta, r) ==
  IF Abs(theta) > TwoPi THEN "ValueError: theta"
  ELSE IF r <= 0 THEN "ValueError: radius"
  ELSE "none"

\* Lines 181-211.  float(theta) / knot_spans raises ZeroDivisionError when
\* knot_spans is 0.
CircleSegment ==
  /\ call.fn = "circle_segment"
  /\ pc = "start"
  /\ LET theta == call.theta
         r     == call.r
         spans == KnotSpans(theta)
     IN  IF SegmentError(theta, r) # "none"
         THEN /\ err' = SegmentError(theta, r)
              /\ pc' = "raised"
              /\ UNCHANGED <<result, knot, basis>>
         ELSE IF theta = TwoPi
         THEN LET c == CircleCall(r, "p2C0")
              IN  IF c.err # "none"
                  THEN /\ err' = c.err
                       /\ pc' = "raised"
                       /\ UNCHANGED <<result, knot, basis>>
                  ELSE /\ result' = c.curve
                       /\ knot' = result'.basis.knots
                       /\ basis' = result'.basis
                       /\ pc' = "done"
                       /\ UNCHANGED err
         ELSE IF spans = 0
         THEN /\ knot' = SegmentKnot(spans, theta)
              /\ err' = "ZeroDivisionError"
              /\ pc' = "raised"
              /\ UNCHANGED <<result, basis>>
         ELSE /\ knot' = SegmentKnot(spans, theta)
              /\ basis' = BSplineBasis(3, knot', -1)
              /\ result' = FlipAndMove(Curve(basis', SegmentPoints(spans, theta, r), TRUE))
              /\ pc' = "done"
              /\ UNCHANGED err
  /\ UNCHANGED <<call, t, N, X>>

\* ------------------------------------------------------- least_square_fit
\* A basis of order 2 with nb functions on the knots 0, 0, 1, ..., nb-1, nb-1.
FitBasis(nb) ==
  BSplineBasis(2, [i \in 1..(nb + 2) |->
                     IF i = 1 THEN 0 ELSE IF i = nb + 2 THEN nb - 1 ELSE i - 2], -1)

FitCalls ==
  {[fn |-> "least_square_fit", x |-> [i \in 1..m |-> <<i, 0>>], basis |-> FitBasis(nb),
    t |-> [i \in 1..m |-> i - 1]] : m \in 1..MaxRows, nb \in 2..MaxBasis}

\* Lines 251-259.  np.linalg.lstsq solves a system of any shape (the
\* minimum-norm solution when rows < columns) and returns one control point
\* per basis function.
LeastSquareCurve(b, NN, XX) == Curve(b, [i \in 1..NumBasis(b) |-> <<"cp", i>>], FALSE)

LeastSquareFit ==
  /\ call.fn = "least_square_fit"
  /\ pc = "start"
  /\ X' = call.x
  /\ t' = call.t
  /\ basis' = call.basis
  /\ N' = Evaluate(call.t, 0)
  /\ result' = LeastSquareCurve(call.basis, N', X')
  /\ pc' = "done"
  /\ UNCHANGED <<call, knot, err>>

\* ------------------------------------------------------------------- spec
Calls == CubicCalls \cup PolygonCalls \cup NGonCalls \cup CircleCalls
         \cup SegmentCalls \cup FitCalls

Init ==
  /\ call \in Calls
  /\ pc = "start"
  /\ t = <<>>
  /\ knot = <<>>
  /\ basis = NoBasis
  /\ N = <<>>
  /\ X = <<>>
  /\ result = NoResult
  /\ err = "none"

Next ==
  \/ Parametrize
  \/ KnotStep
  \/ BasisStep
  \/ TangentStep
  \/ NaturalStep
  \/ SolveFails
  \/ SolveReturns
  \/ Polygon
  \/ NGon
  \/ Circle
  \/ CircleSegment
  \/ LeastSquareFit

Spec == Init /\ [][Next]_vars

\* ----------------------------------------------------------------- claims
IsCubic == call.fn = "cubic_curve"

NumPoints == Len(call.x)

\* s without the elements at the (1-based) places in I.
RECURSIVE Without(_, _, _)
Without(s, I, i) ==
  IF i > Len(s) THEN <<>>
  ELSE (IF i \in I THEN <<>> ELSE <<s[i]>>) \o Without(s, I, i + 1)

\* C1: in cubic_curve, for every boundary regime and every strictly
\* increasing t, the knot vector handed to the basis constructor is
\* non-decreasing, whatever t[0] is.
C1_KnotNonDecreasing ==
  (IsCubic /\ basis # NoBasis /\ StrictlyIncreasing(t)) => NonDecreasing(basis.knots)

\* C2 as stated: with FREE, for every strictly increasing t of length n >= 2
\* the knots removed are those at index 4 and index -5 of the padded sequence,
\* the first and the last knot keep multiplicity 4 and the length is n + 4.
FreeKnotAsClaimed ==
  LET padded == PaddedKnot(t)
  IN  /\ knot = Without(padded, {5, Len(padded) - 4}, 1)
      /\ Multiplicity(knot, knot[1]) = 4
      /\ Multiplicity(knot, knot[Len(knot)]) = 4
      /\ Len(knot) = NumPoints + 4

FreeKnotBuilt ==
  IsCubic /\ call.boundary = FREE /\ pc = "basis" /\ StrictlyIncreasing(t)

C2_FreeKnotAnyN == FreeKnotBuilt => FreeKnotAsClaimed

\* C2 amended: the same for every strictly increasing t of length n >= 4.
C2_FreeKnotFromFour == (FreeKnotBuilt /\ NumPoints >= 4) => FreeKnotAsClaimed

C2_Witness == FreeKnotBuilt /\ NumPoints >= 4 /\ Len(knot) = NumPoints + 4

\* C3: in cubic_curve, for every boundary regime and every n >= 2 points with
\* the tangent rows the regime requires, the call assembles a square system:
\* N has n rows plus the regime's derivative rows, as many as the knot vector
\* implies basis functions, and X has as many rows as N.
DerivativeRows(b, n) ==
  IF b \in {NATURAL, TANGENT, TANGENTNATURAL} THEN 2 ELSE IF b = HERMITE THEN n ELSE 0

TangentsAsRequired ==
  NeedsTangents(call.boundary)
    => Len(call.tangents) = TangentRowsNeeded(call.boundary, NumPoints)

C3_SystemSquare ==
  (IsCubic /\ TangentsAsRequired /\ StrictlyIncreasing(t)
     /\ pc \in {"solve", "done", "raised"})
  => /\ Len(N) = NumPoints + DerivativeRows(call.boundary, NumPoints)
     /\ Len(N) = Len(basis.knots) - 4 - (IF call.boundary = PERIODIC THEN 2 ELSE 0)
     /\ Len(X) = Len(N)

\* C4: cubic_curve fails with a DimensionMismatch error, before any matrix is
\* assembled and without returning a curve, whenever the tangents matrix does
\* not have the row count the regime requires.
C4_TangentRowsChecked ==
  (IsCubic /\ ~TangentsAsRequired)
  => /\ N = <<>>
     /\ pc # "done"
     /\ pc \notin {"start", "knot"} => (pc = "raised" /\ err = "DimensionMismatch")

\* C5: least_square_fit fails with an UnderdeterminedSystem error and returns
\* no curve whenever there are fewer sample rows than basis functions.
C5_UnderdeterminedRejected ==
  (call.fn = "least_square_fit" /\ pc # "start"
     /\ Len(call.x) < NumBasis(call.basis))
  => (pc = "raised" /\ err = "UnderdeterminedSystem")

\* C6: cubic_curve with HERMITE, n >= 2 points, strictly increasing t and n
\* tangent rows raises no error; every interior parameter value is a double
\* knot, and the system is the n position rows followed by the n
\* first-derivative rows with the n tangents as their right-hand sides.
C6_HermiteCompletes ==
  (IsCubic /\ call.boundary = HERMITE /\ Len(call.tangents) = NumPoints
     /\ StrictlyIncreasing(t) /\ pc \notin {"start", "knot", "basis", "tangent"})
  => /\ err = "none"
     /\ \A i \in 2..(NumPoints - 1) : Multiplicity(knot, t[i]) = 2
     /\ N = Evaluate(t, 0) \o Evaluate(t, 1)
     /\ X = call.x \o call.tangents

\* C7: circle_segment(theta, r) with r > 0, theta nonzero, |theta| <= 2*pi and
\* theta # 2*pi returns a curve of s spans, s the least number of equal spans
\* of at most 2*pi/3: 2*s + 1 control points with weights alternating 1 and
\* cos(theta/(2*s)), and an order-3 knot vector of length 2*s + 4 on
\* [0, theta] with tripled end knots and doubled interior knots.
MinSpans(theta) ==
  CHOOSE s \in 1..(TwoPi + ThetaOver + 1) :
    /\ Abs(theta) <= s * MaxSpan
    /\ \A k \in 1..(s - 1) : Abs(theta) > k * MaxSpan

\* The fraction f = <<numerator, denominator>> has the value num/den.
FractionIs(f, num, den) == f[2] # 0 /\ f[1] * den = num * f[2]

C7_SegmentStructure ==
  (call.fn = "circle_segment" /\ call.r > 0 /\ call.theta # 0
     /\ Abs(call.theta) <= TwoPi /\ call.theta # TwoPi /\ pc # "start")
  => LET s  == MinSpans(call.theta)
         k  == result.basis.knots
         cp == result.cp
     IN  /\ pc = "done"
         /\ Len(cp) = 2 * s + 1
         /\ \A i \in 1..Len(cp) :
              IF i % 2 = 1 THEN FractionIs(cp[i].w, 0, 1)
              ELSE FractionIs(cp[i].w, call.theta, 2 * s)
         /\ result.basis.order = 3
         /\ Len(k) = 2 * s + 4
         /\ \A i \in 1..Len(k) :
              IF i <= 3 THEN FractionIs(k[i], 0, 1)
              ELSE IF i > Len(k) - 3 THEN FractionIs(k[i], call.theta, 1)
              ELSE FractionIs(k[i], ((i - 2) \div 2) * call.theta, s)

\* C8: the validation of n_gon, circle and circle_segment is total: n_gon
\* returns a curve iff r > 0 and n >= 3, circle iff r > 0 and the type is a
\* recognised one, circle_segment never when r <= 0 or |theta| > 2*pi (also
\* not for theta = 2*pi with r <= 0); a rejected call raises the documented
\* error, which the inputs determine (the radius is reported before the side
\* count or the type, the angle before the radius), before any basis or curve
\* is constructed.
NothingBuilt == basis = NoBasis /\ result = NoResult /\ knot = <<>>

C8_ValidationTotal ==
  /\ (call.fn = "n_gon" /\ pc # "start")
       => /\ pc = "done" <=> (call.r > 0 /\ call.n >= 3)
          /\ pc = "done" => (result.kind = "curve" /\ err = "none")
          /\ pc # "done" =>
               /\ pc = "raised" /\ NothingBuilt
               /\ err = IF call.r <= 0 THEN "ValueError: radius" ELSE "ValueError: sides"
  /\ (call.fn = "circle" /\ pc # "start")
       => /\ pc = "done" <=> (call.r > 0 /\ call.type \in {"p2C0", "C0p2", "p4C1", "C1p4"})
          /\ pc = "done" => (result.kind = "curve" /\ err = "none")
          /\ pc # "done" =>
               /\ pc = "raised" /\ NothingBuilt
               /\ err = IF call.r <= 0 THEN "ValueError: radius" ELSE "ValueError: type"
  /\ (call.fn = "circle_segment" /\ pc # "start"
        /\ (call.r <= 0 \/ Abs(call.theta) > TwoPi))
       => /\ pc = "raised" /\ NothingBuilt
          /\ err = IF Abs(call.theta) > TwoPi THEN "ValueError: theta"
                   ELSE "ValueError: radius"

C8_Witness ==
  /\ call.fn = "circle_segment" /\ call.theta = TwoPi /\ call.r <= 0
  /\ pc = "raised" /\ err = "ValueError: radius"

\* C9: polygon with m >= 2 points returns the knot vector
\* [0, 0, d_1, ..., d_{m-1}, d_{m-1}], d_i the cumulative Euclidean distance
\* along the control points of the returned curve, with relative=False and
\* with relative=True alike.
C9_PolygonKnotIsArcLength ==
  (call.fn = "polygon" /\ pc = "done")
  => LET cp == result.cp
         k  == result.basis.knots
         m  == Len(cp)
     IN  /\ Len(k) = m + 2
         /\ k[1] = 0 /\ k[2] = 0
         /\ \A i \in 1..(m - 1) : k[i + 2] = k[i + 1] + Dist(cp[i], cp[i + 1])
         /\ k[m + 2] = k[m + 1]
         /\ NonDecreasing(k)

\* C10: in cubic_curve with NATURAL, TANGENT or TANGENTNATURAL the final N and
\* X keep rows 0..n-1 equal to the basis evaluation at t and the input points,
\* and every appended row holds its constraint; with TANGENTNATURAL row n is
\* the first derivative at t[0] with the supplied tangent and row n+1 the
\* second derivative at t[-1] with a zero target.
C10_RowsKept ==
  (IsCubic /\ call.boundary \in {NATURAL, TANGENT, TANGENTNATURAL}
     /\ pc \in {"solve", "done"})
  => LET n   == NumPoints
         b   == call.boundary
         tan == call.tangents
         t0  == t[1]
         tn  == t[Len(t)]
     IN  /\ Len(N) = n + 2 /\ Len(X) = n + 2
         /\ \A i \in 1..n : N[i] = <<0, t[i]>> /\ X[i] = call.x[i]
         /\ b = NATURAL =>
              /\ N[n + 1] = <<2, t0>> /\ X[n + 1] = <<0, 0>>
              /\ N[n + 2] = <<2, tn>> /\ X[n + 2] = <<0, 0>>
         /\ b = TANGENT =>
              /\ N[n + 1] = <<1, t0>> /\ X[n + 1] = tan[1]
              /\ N[n + 2] = <<1, tn>> /\ X[n + 2] = tan[Len(tan)]
         /\ b = TANGENTNATURAL =>
              /\ N[n + 1] = <<1, t0>> /\ X[n + 1] = tan[1]
              /\ N[n + 2] = <<2, tn>> /\ X[n + 2] = <<0, 0>>

C10_Witness ==
  /\ IsCubic /\ call.boundary = TANGENTNATURAL /\ pc = "done"
  /\ Len(call.tangents) = 1 /\ call.x[1] # <<0, 0>> /\ call.x = SubSeq(X, 1, NumPoints)

====
